---- MODULE Spec2Model ----
(***************************************************************************)
(* cihai: the application object (src/cihai/core.py, class Cihai) and the  *)
(* command line front end (src/cihai/cli.py).                              *)
(*                                                                         *)
(* One process at a time is modelled.  A process is one of                 *)
(*   - a CLI run            `cihai [-c PATH] info CHAR`                    *)
(*   - a library call       Cihai.from_file(PATH)                          *)
(*   - a library call       Cihai(config, unihan)                          *)
(* The data directory on disk outlives the process; everything else is     *)
(* per process.  setup_logger only configures logging and is left out.     *)
(*                                                                         *)
(* An attribute lookup on the application object succeeds only for what    *)
(* class Cihai defines, what __init__ assigns and what add_dataset sets.   *)
(*                                                                         *)
(* A configuration (a nested dict) is represented by its leaves: a         *)
(* function from key paths (sequences of keys) to leaf values.             *)
(***************************************************************************)
EXTENDS Integers, Sequences, FiniteSets, TLC

\* Largest number of leaves in a user supplied configuration.
MaxUserKeys == 3

(***************************************************************************)
(* Strings that the code inspects character by character are sequences of  *)
(* one-character strings.                                                  *)
(***************************************************************************)
P_json   == <<"c", ".", "j", "s", "o", "n">>   \* "c.json", a file
P_nodot  == <<"c", "j", "s", "o", "n">>        \* "cjson",  a file
P_txt    == <<"c", ".", "t", "x", "t">>        \* "c.txt",  a file
P_absent == <<"m", ".", "i", "n", "i">>        \* "m.ini",  no such file
P_empty  == << >>                              \* ""

\* The files present on disk (os.path.exists).
ExistingFiles == {P_json, P_nodot, P_txt}

\* A path argument: None, or a string.
NonePath == [none |-> TRUE, s |-> P_empty]
StrPath(s) == [none |-> FALSE, s |-> s]
PathArgs == {NonePath} \cup {StrPath(s) : s \in {P_empty, P_json, P_nodot, P_txt, P_absent}}

\* Truth value of a path argument (`if config_path:`, `if config:`).
PathTruthy(a) == ~a.none /\ a.s # << >>

\* str.endswith
EndsWith(s, suf) ==
    /\ Len(s) >= Len(suf)
    /\ SubSeq(s, Len(s) - Len(suf) + 1, Len(s)) = suf

\* The suffixes tested by from_file.
ConfigExts == {<<"j", "s", "o", "n">>, <<"y", "m", "l">>,
               <<"y", "a", "m", "l">>, <<"i", "n", "i">>}

\* any(config_path.endswith(ext) for ext in ('json', 'yml', 'yaml', 'ini'))
PassesExtCheck(s) == \E ext \in ConfigExts : EndsWith(s, ext)

(***************************************************************************)
(* Configurations.                                                         *)
(***************************************************************************)
EmptyCfg == [p \in {} |-> ""]

IsPrefix(p, q) == Len(p) <= Len(q) /\ SubSeq(q, 1, Len(p)) = p

\* Two leaves that cannot both be in one nested dict: one lies at or under
\* the other.
Conflicts(p, q) == IsPrefix(p, q) \/ IsPrefix(q, p)

\* The leaves a user configuration may set, and the values tried for each.
UserPaths ==
    { <<"debug">>, <<"debug", "level">>, <<"database", "url">>,
      <<"datasets", "unihan">>, <<"datasets", "extra">>,
      <<"datasets", "sql">>, <<"datasets", "is_bootstrapped">>,
      <<"plugins", "unihan", "variants">>, <<"plugins", "unihan", "tone">>,
      <<"plugins", "ghost", "p">>, <<"plugins", "config", "p">> }

AllowedValues(p) ==
    IF p[1] = "debug" THEN {"True"}
    ELSE IF p[1] = "database" THEN {"~/my.db", "/srv/my.db"}
    ELSE IF p[1] = "datasets" THEN {"pkg.MixinCls", "pkg.PlainCls", "pkg.BadPath"}
    ELSE IF p = <<"plugins", "unihan", "tone">> THEN {"pkg.PluginB", "pkg.BadPath"}
    ELSE {"pkg.PluginB"}

AllValues == UNION {AllowedValues(p) : p \in UserPaths}

PrefixFree(S) == \A p \in S : \A q \in S : p # q => ~Conflicts(p, q)

UserConfigs ==
    UNION { {f \in [S -> AllValues] : \A p \in S : f[p] \in AllowedValues(p)} :
            S \in {T \in SUBSET UserPaths :
                      Cardinality(T) <= MaxUserKeys /\ PrefixFree(T)} }

\* The config argument of Cihai(...): None, or a dict.
NoneCfg == [none |-> TRUE, map |-> EmptyCfg]
DictCfg(f) == [none |-> FALSE, map |-> f]

\* cihai.constants.DEFAULT_CONFIG
DEFAULT_CONFIG ==
    [p \in {<<"debug">>, <<"database", "url">>} |->
        IF p = <<"debug">> THEN "False" ELSE "sqlite:///{user_data_dir}/cihai.db"]

\* cihai.constants.UNIHAN_CONFIG
UNIHAN_CONFIG ==
    [p \in {<<"datasets", "unihan">>, <<"plugins", "unihan", "variants">>} |->
        IF p = <<"datasets", "unihan">> THEN "cihai.data.unihan.dataset.Unihan"
        ELSE "cihai.data.unihan.dataset.UnihanVariants"]

\* Cihai.default_config: DEFAULT_CONFIG, or a monkey-patched replacement
\* ("can be monkey-patched during tests").
PATCHED_CONFIG ==
    [p \in {<<"database", "url">>, <<"datasets", "unihan">>} |->
        IF p = <<"database", "url">> THEN "sqlite:///:memory:" ELSE "pkg.MixinCls"]

DefaultConfigs == {DEFAULT_CONFIG, PATCHED_CONFIG}

\* cihai.utils.merge_dict(base, additional): nested merge, additional wins.
merge_dict(base, additional) ==
    LET keep == {p \in DOMAIN base :
                    \A q \in DOMAIN additional : ~Conflicts(p, q)}
    IN  [p \in keep \cup DOMAIN additional |->
            IF p \in DOMAIN additional THEN additional[p] ELSE base[p]]

\* Expansion of one leaf (tilde, environment, {user_data_dir} templates).
ExpandValue(v) ==
    IF v = "~/my.db" THEN "/home/u/my.db"
    ELSE IF v = "sqlite:///{user_data_dir}/cihai.db"
         THEN "sqlite:////home/u/.local/share/cihai/cihai.db"
    ELSE v

\* cihai.config.expand_config(d, dirs), in place.
expand_config(d) == [p \in DOMAIN d |-> ExpandValue(d[p])]

(***************************************************************************)
(* Classes named by dotted path strings.                                   *)
(***************************************************************************)
\* import_string succeeds
Importable(c) == c # "pkg.BadPath"

\* isinstance(_cls(), extend.SQLAlchemyMixin)
IsSQLAlchemyMixin(c) == c \in {"cihai.data.unihan.dataset.Unihan", "pkg.MixinCls"}

\* the class has an add_plugin method (extend.ExtensionMixin)
HasAddPlugin(c) == c \in {"cihai.data.unihan.dataset.Unihan", "pkg.MixinCls"}

(***************************************************************************)
(* The Unihan table of the store, and what `info` prints from it.          *)
(***************************************************************************)
Columns == <<"char", "kDefinition", "kMandarin">>

UnihanTable ==
    << [char |-> "hao", kDefinition |-> "good", kMandarin |-> ""],
       [char |-> "hao", kDefinition |-> "", kMandarin |-> "hao3"],
       [char |-> "yi", kDefinition |-> "NULL", kMandarin |-> "yi1"] >>

Chars == {"hao", "zz"}

\* truth value of a column value: None and '' are false
Truthy(v) == v \notin {"", "NULL"}

HasRow(ch) == \E i \in 1..Len(UnihanTable) : UnihanTable[i].char = ch

\* query(Unihan).filter_by(char=char).first()
FirstRow(ch) ==
    UnihanTable[CHOOSE i \in 1..Len(UnihanTable) :
                   /\ UnihanTable[i].char = ch
                   /\ \A j \in 1..(i - 1) : UnihanTable[j].char # ch]

\* the lines printed by the loop over the columns of a row; a line
\* '{:>30} {:>60}'.format(c, value) is kept as its two fields
RECURSIVE InfoLinesFrom(_, _)
InfoLinesFrom(row, i) ==
    IF i > Len(Columns) THEN << >>
    ELSE (IF Truthy(row[Columns[i]]) THEN << <<Columns[i], row[Columns[i]]>> >>
          ELSE << >>) \o InfoLinesFrom(row, i + 1)

InfoLines(row) == InfoLinesFrom(row, 1)

(***************************************************************************)
(* State.                                                                  *)
(***************************************************************************)
VARIABLES
    pc,            \* position of the process
    entry,         \* "none", "cli", "from_file", "init"
    pathArg,       \* the -c option / config_path argument
    char,          \* the CHAR argument of `info`
    cfgArg,        \* the config argument of Cihai(...)
    unihan,        \* the unihan argument of Cihai(...)
    defaultCfg,    \* Cihai.default_config
    fileRead,      \* the config file has been read
    attrsSet,      \* which of the instance attributes config, sql exist
    config,        \* self.config
    datasets,      \* attached datasets: namespace -> [cls, sql, plugins]
    ctxObj,        \* ctx.obj has the key 'c'
    out,           \* lines written to standard output, each a tuple of fields
    err,           \* the exception that ended the process
    dataDirExists  \* the user data directory exists on disk

vars == <<pc, entry, pathArg, char, cfgArg, unihan, defaultCfg, fileRead,
          attrsSet, config, datasets, ctxObj, out, err, dataDirExists>>

NoErr == [kind |-> "", line |-> 0, file |-> ""]
Raised(k, f, l) == [kind |-> k, line |-> l, file |-> f]

EmptyDatasets == [n \in {} |-> [cls |-> "", sql |-> "", plugins |-> EmptyCfg]]
NoPlugins == [n \in {} |-> ""]

Init ==
    /\ pc = "idle"
    /\ entry = "none"
    /\ pathArg = NonePath
    /\ char = ""
    /\ cfgArg = NoneCfg
    /\ unihan = TRUE
    /\ defaultCfg = DEFAULT_CONFIG
    /\ fileRead = FALSE
    /\ attrsSet = {}
    /\ config = EmptyCfg
    /\ datasets = EmptyDatasets
    /\ ctxObj = FALSE
    /\ out = << >>
    /\ err = NoErr
    /\ dataDirExists = FALSE

\* The attributes a lookup on the Cihai instance finds: the class's own,
\* the instance attributes set by __init__, and the attached datasets.
ClassAttrs == {"default_config", "bootstrap", "add_dataset", "from_file"}
CihaiAttrs == ClassAttrs \cup attrsSet \cup DOMAIN datasets

Fail(e) ==
    /\ pc' = "error"
    /\ err' = e

(***************************************************************************)
(* Process start.                                                          *)
(***************************************************************************)
ProcessVarsUnchanged ==
    UNCHANGED <<fileRead, attrsSet, config, datasets, ctxObj, out, dataDirExists>>

\* cli(): click parses the arguments and enters the group callback.  The
\* -c option is click.Path(exists=True): a path that does not exist is
\* rejected by click before the callback runs.  Without -c the callback
\* calls Cihai(); with it, Cihai.from_file(config).
CliStart ==
    /\ pc = "idle"
    /\ \E a \in PathArgs, ch \in Chars :
          /\ pathArg' = a
          /\ char' = ch
          /\ entry' = "cli"
          /\ cfgArg' = NoneCfg
          /\ unihan' = TRUE
          /\ defaultCfg' = DEFAULT_CONFIG
          /\ IF ~a.none /\ a.s \notin ExistingFiles
             THEN Fail(Raised("UsageError", "cli.py", 18))
             ELSE /\ pc' = IF PathTruthy(a) THEN "ff_exists" ELSE "init_merge"
                  /\ err' = NoErr
    /\ ProcessVarsUnchanged

\* A library call Cihai.from_file(config_path).
FromFileStart ==
    /\ pc = "idle"
    /\ \E a \in PathArgs :
          /\ pathArg' = a
          /\ entry' = "from_file"
          /\ pc' = "ff_exists"
    /\ char' = ""
    /\ cfgArg' = NoneCfg
    /\ unihan' = TRUE
    /\ defaultCfg' = DEFAULT_CONFIG
    /\ err' = NoErr
    /\ ProcessVarsUnchanged

\* A library call Cihai(config, unihan).
InitStart ==
    /\ pc = "idle"
    /\ \E c \in {NoneCfg} \cup {DictCfg(f) : f \in UserConfigs},
          u \in BOOLEAN, d \in DefaultConfigs :
          /\ cfgArg' = c
          /\ unihan' = u
          /\ defaultCfg' = d
    /\ entry' = "init"
    /\ pc' = "init_merge"
    /\ pathArg' = NonePath
    /\ char' = ""
    /\ err' = NoErr
    /\ ProcessVarsUnchanged

(***************************************************************************)
(* Cihai.from_file                                                         *)
(***************************************************************************)
\* config = {}; if config_path: if not os.path.exists(config_path): raise
FromFileCheckExists ==
    /\ pc = "ff_exists"
    /\ IF ~PathTruthy(pathArg)
       THEN /\ cfgArg' = DictCfg(EmptyCfg)
            /\ pc' = "init_merge"
            /\ err' = err
       ELSE IF pathArg.s \notin ExistingFiles
       THEN /\ Fail(Raised("CihaiException", "core.py", 140))
            /\ cfgArg' = cfgArg
       ELSE /\ pc' = "ff_ext"
            /\ UNCHANGED <<cfgArg, err>>
    /\ UNCHANGED <<entry, pathArg, char, unihan, defaultCfg, fileRead,
                   attrsSet, config, datasets, ctxObj, out, dataDirExists>>

\* if not any(config_path.endswith(ext) ...): raise
FromFileCheckExt ==
    /\ pc = "ff_ext"
    /\ IF ~PassesExtCheck(pathArg.s)
       THEN Fail(Raised("CihaiException", "core.py", 146))
       ELSE /\ pc' = "ff_read"
            /\ err' = err
    /\ UNCHANGED <<entry, pathArg, char, cfgArg, unihan, defaultCfg, fileRead,
                   attrsSet, config, datasets, ctxObj, out, dataDirExists>>

\* custom_config = config_reader.import_config(config_path).get()
\* config = merge_dict(config, custom_config); return cls(config)
\* The reader (kaptan) either yields the dict the file holds or raises.
FromFileRead ==
    /\ pc = "ff_read"
    /\ fileRead' = TRUE
    /\ \/ /\ Fail(Raised("ConfigReadError", "core.py", 152))
          /\ cfgArg' = cfgArg
       \/ \E f \in UserConfigs :
             /\ cfgArg' = DictCfg(merge_dict(EmptyCfg, f))
             /\ pc' = "init_merge"
             /\ err' = err
    /\ UNCHANGED <<entry, pathArg, char, unihan, defaultCfg,
                   attrsSet, config, datasets, ctxObj, out, dataDirExists>>

(***************************************************************************)
(* Cihai.__init__                                                          *)
(***************************************************************************)
\* if config is None: config = {}
\* self.config = merge_dict(self.default_config, config)
\* if unihan: self.config = merge_dict(UNIHAN_CONFIG, self.config)
MergedConfig_defaultsWin(dflt, c, u) ==
    LET user == IF c.none THEN EmptyCfg ELSE c.map
        m    == merge_dict(user, dflt)
    IN  IF u THEN merge_dict(UNIHAN_CONFIG, m) ELSE m

MergedConfig_alwaysUnihan(dflt, c, u) ==
    LET user == IF c.none THEN EmptyCfg ELSE c.map
        m    == merge_dict(dflt, user)
    IN  merge_dict(UNIHAN_CONFIG, m)

MergedConfig(dflt, c, u) ==
    LET user == IF c.none THEN EmptyCfg ELSE c.map
        m    == merge_dict(dflt, user)
    IN  IF u THEN merge_dict(UNIHAN_CONFIG, m) ELSE m

CihaiInitMerge ==
    /\ pc = "init_merge"
    /\ config' = MergedConfig(defaultCfg, cfgArg, unihan)
    /\ attrsSet' = attrsSet \cup {"config"}
    /\ pc' = "init_expand"
    /\ UNCHANGED <<entry, pathArg, char, cfgArg, unihan, defaultCfg, fileRead,
                   datasets, ctxObj, out, err, dataDirExists>>

\* dirs = AppDirs(...); expand_config(self.config, dirs)
CihaiInitExpand ==
    /\ pc = "init_expand"
    /\ config' = expand_config(config)
    /\ pc' = "init_datadir"
    /\ UNCHANGED <<entry, pathArg, char, cfgArg, unihan, defaultCfg, fileRead,
                   attrsSet, datasets, ctxObj, out, err, dataDirExists>>

\* if not os.path.exists(dirs.user_data_dir): os.makedirs(dirs.user_data_dir)
CihaiInitDataDir_skipDatabase ==
    /\ pc = "init_datadir"
    /\ dataDirExists' = TRUE
    /\ pc' = "bootstrap"
    /\ UNCHANGED <<entry, pathArg, char, cfgArg, unihan, defaultCfg, fileRead,
                   attrsSet, config, datasets, ctxObj, out, err>>

CihaiInitDataDir ==
    /\ pc = "init_datadir"
    /\ dataDirExists' = TRUE
    /\ pc' = "init_db"
    /\ UNCHANGED <<entry, pathArg, char, cfgArg, unihan, defaultCfg, fileRead,
                   attrsSet, config, datasets, ctxObj, out, err>>

\* self.sql = Database(self.config); self.bootstrap()
CihaiInitDatabase ==
    /\ pc = "init_db"
    /\ attrsSet' = attrsSet \cup {"sql"}
    /\ pc' = "bootstrap"
    /\ UNCHANGED <<entry, pathArg, char, cfgArg, unihan, defaultCfg, fileRead,
                   config, datasets, ctxObj, out, err, dataDirExists>>

(***************************************************************************)
(* Cihai.bootstrap, Cihai.add_dataset                                      *)
(***************************************************************************)
\* self.config.get('datasets', {}) : the configured namespaces
DatasetNames(cfg) ==
    {p[2] : p \in {q \in DOMAIN cfg : Len(q) = 2 /\ q[1] = "datasets"}}

\* self.config.get('plugins', {}) : the (dataset, namespace) plugin entries
PluginEntries(cfg) == {q \in DOMAIN cfg : Len(q) = 3 /\ q[1] = "plugins"}

\* the plugin entries already added to their datasets
PluginsAdded ==
    UNION { {<<"plugins", d, n>> : n \in DOMAIN datasets[d].plugins} :
            d \in DOMAIN datasets }

\* what `self.sql` evaluates to once the namespace ns has been set on self
SelfSql(ns) ==
    IF ns = "sql" \/ "sql" \in DOMAIN datasets THEN "dataset"
    ELSE IF "sql" \in attrsSet THEN "Database"
    ELSE "AttributeError"

WithDataset(ns, c, h) ==
    [n \in DOMAIN datasets \cup {ns} |->
        IF n = ns THEN [cls |-> c, sql |-> h, plugins |-> NoPlugins]
        ELSE datasets[n]]

\* one iteration of `for namespace, class_string in datasets.items():`
\*     self.add_dataset(class_string, namespace)
BootstrapAddDataset ==
    /\ pc = "bootstrap"
    /\ \E ns \in DatasetNames(config) \ DOMAIN datasets :
          LET c == config[<<"datasets", ns>>] IN
          IF ~Importable(c)
          THEN /\ Fail(Raised("ImportError", "core.py", 110))
               /\ datasets' = datasets
          ELSE IF ~IsSQLAlchemyMixin(c)
          THEN /\ datasets' = WithDataset(ns, c, "unset")
               /\ UNCHANGED <<pc, err>>
          ELSE IF SelfSql(ns) = "AttributeError"
          THEN /\ datasets' = WithDataset(ns, c, "unset")
               /\ Fail(Raised("AttributeError", "core.py", 116))
          ELSE /\ datasets' = WithDataset(ns, c, SelfSql(ns))
               /\ UNCHANGED <<pc, err>>
    /\ UNCHANGED <<entry, pathArg, char, cfgArg, unihan, defaultCfg, fileRead,
                   attrsSet, config, ctxObj, out, dataDirExists>>

\* the first loop of bootstrap has run to its end
DatasetsLoopDone_early == TRUE

DatasetsLoopDone == DatasetNames(config) \subseteq DOMAIN datasets

\* the plugin entries of dataset d all added, or none of them yet
InnerLoopIdle(d) ==
    LET mine == {q \in PluginEntries(config) : q[2] = d}
    IN  mine \subseteq PluginsAdded \/ mine \cap PluginsAdded = {}

\* one iteration of
\*   for dataset, plugins in self.config.get('plugins', {}).items():
\*       for namespace, class_string in plugins.items():
\*           getattr(self, dataset).add_plugin(class_string, namespace)
BootstrapAddPlugin ==
    /\ pc = "bootstrap"
    /\ DatasetsLoopDone
    /\ \E q \in PluginEntries(config) \ PluginsAdded :
          /\ \A d \in {r[2] : r \in PluginEntries(config)} \ {q[2]} : InnerLoopIdle(d)
          /\ IF q[2] \notin CihaiAttrs
             THEN /\ Fail(Raised("AttributeError", "core.py", 106))
                  /\ datasets' = datasets
             ELSE IF q[2] \notin DOMAIN datasets \/ ~HasAddPlugin(datasets[q[2]].cls)
             \* the attribute is no dataset (the config dict), or a dataset
             \* of a class without add_plugin
             THEN /\ Fail(Raised("AttributeError", "core.py", 106))
                  /\ datasets' = datasets
             ELSE IF ~Importable(config[q])
             THEN /\ Fail(Raised("ImportError", "core.py", 106))
                  /\ datasets' = datasets
             ELSE /\ datasets' =
                        [datasets EXCEPT ![q[2]].plugins =
                            [n \in DOMAIN @ \cup {q[3]} |->
                                IF n = q[3] THEN config[q] ELSE @[n]]]
                  /\ UNCHANGED <<pc, err>>
    /\ UNCHANGED <<entry, pathArg, char, cfgArg, unihan, defaultCfg, fileRead,
                   attrsSet, config, ctxObj, out, dataDirExists>>

\* both loops are over: bootstrap and __init__ return; from_file returns the
\* object; in a CLI run the group callback goes on
BootstrapReturn ==
    /\ pc = "bootstrap"
    /\ DatasetNames(config) \subseteq DOMAIN datasets
    /\ PluginEntries(config) \subseteq PluginsAdded
    /\ pc' = IF entry = "cli" THEN "cli_check" ELSE "done"
    /\ UNCHANGED <<entry, pathArg, char, cfgArg, unihan, defaultCfg, fileRead,
                   attrsSet, config, datasets, ctxObj, out, err, dataDirExists>>

(***************************************************************************)
(* cli.py: the rest of the group callback, and the info command            *)
(***************************************************************************)
\* if not c.is_bootstrapped:
\* Cihai defines no is_bootstrapped: the lookup raises unless a dataset was
\* attached under that name, and then the test is the truth value of that
\* dataset object (of a class the configuration chose).
CliCheckBootstrapped ==
    /\ pc = "cli_check"
    /\ IF "is_bootstrapped" \notin CihaiAttrs
       THEN Fail(Raised("AttributeError", "cli.py", 33))
       ELSE /\ pc' \in {"cli_bootstrap", "cli_store"}
            /\ err' = err
    /\ UNCHANGED <<entry, pathArg, char, cfgArg, unihan, defaultCfg, fileRead,
                   attrsSet, config, datasets, ctxObj, out, dataDirExists>>

\* click.echo("Bootstrapping Unihan database")
\* bootstrap_unihan(c.metadata, ...): the argument c.metadata is evaluated
\* first, and Cihai has no attribute metadata.
CliBootstrapUnihan ==
    /\ pc = "cli_bootstrap"
    /\ out' = Append(out, <<"Bootstrapping Unihan database">>)
    /\ "metadata" \notin CihaiAttrs
    /\ Fail(Raised("AttributeError", "cli.py", 36))
    /\ UNCHANGED <<entry, pathArg, char, cfgArg, unihan, defaultCfg, fileRead,
                   attrsSet, config, datasets, ctxObj, dataDirExists>>

\* ctx.obj['c'] = c; the callback returns and click invokes the command
CliStoreContext ==
    /\ pc = "cli_store"
    /\ ctxObj' = TRUE
    /\ pc' = "cmd_info"
    /\ UNCHANGED <<entry, pathArg, char, cfgArg, unihan, defaultCfg, fileRead,
                   attrsSet, config, datasets, out, err, dataDirExists>>

\* command_info: c = ctx.obj['c']; Unihan = c.base.classes.Unihan
\* Cihai has no attribute base.
CommandInfo ==
    /\ pc = "cmd_info"
    /\ ctxObj
    /\ "base" \notin CihaiAttrs
    /\ Fail(Raised("AttributeError", "cli.py", 47))
    /\ UNCHANGED <<entry, pathArg, char, cfgArg, unihan, defaultCfg, fileRead,
                   attrsSet, config, datasets, ctxObj, out, dataDirExists>>

\* The process ends; the next one starts from scratch, on the same disk.
ProcessExit ==
    /\ pc \in {"done", "error"}
    /\ pc' = "idle"
    /\ entry' = "none"
    /\ pathArg' = NonePath
    /\ char' = ""
    /\ cfgArg' = NoneCfg
    /\ unihan' = TRUE
    /\ defaultCfg' = DEFAULT_CONFIG
    /\ fileRead' = FALSE
    /\ attrsSet' = {}
    /\ config' = EmptyCfg
    /\ datasets' = EmptyDatasets
    /\ ctxObj' = FALSE
    /\ out' = << >>
    /\ err' = NoErr
    /\ UNCHANGED dataDirExists

Next ==
    \/ CliStart
    \/ FromFileStart
    \/ InitStart
    \/ FromFileCheckExists
    \/ FromFileCheckExt
    \/ FromFileRead
    \/ CihaiInitMerge
    \/ CihaiInitExpand
    \/ CihaiInitDataDir
    \/ CihaiInitDatabase
    \/ BootstrapAddDataset
    \/ BootstrapAddPlugin
    \/ BootstrapReturn
    \/ CliCheckBootstrapped
    \/ CliBootstrapUnihan
    \/ CliStoreContext
    \/ CommandInfo
    \/ ProcessExit

Spec == Init /\ [][Next]_vars

TypeOK ==
    /\ pc \in {"idle", "ff_exists", "ff_ext", "ff_read", "init_merge",
               "init_expand", "init_datadir", "init_db", "bootstrap",
               "cli_check", "cli_bootstrap", "cli_store", "cmd_info",
               "done", "error"}
    /\ entry \in {"none", "cli", "from_file", "init"}
    /\ attrsSet \subseteq {"config", "sql"}
    /\ dataDirExists \in BOOLEAN


(***************************************************************************)
(* Where a process stands.                                                 *)
(***************************************************************************)
Ended == pc \in {"done", "error"}

RaisedAt(f, lines) == pc = "error" /\ err.file = f /\ err.line \in lines

\* Cihai.from_file has been called
FromFileEntered ==
    /\ pc # "idle"
    /\ ~RaisedAt("cli.py", {18})
    /\ entry = "from_file" \/ (entry = "cli" /\ PathTruthy(pathArg))

\* expand_config has run on self.config
Expanded ==
    \/ pc \in {"init_datadir", "init_db", "bootstrap", "cli_check",
               "cli_bootstrap", "cli_store", "cmd_info", "done"}
    \/ RaisedAt("core.py", {106, 110, 116})
    \/ RaisedAt("cli.py", {33, 36, 47})

\* Cihai(...) has returned the application object
Constructed ==
    \/ pc \in {"cli_check", "cli_bootstrap", "cli_store", "cmd_info", "done"}
    \/ RaisedAt("cli.py", {33, 36, 47})

\* the group callback is at or behind its is_bootstrapped test
BootTestReached ==
    \/ pc \in {"cli_check", "cli_bootstrap", "cli_store", "cmd_info"}
    \/ RaisedAt("cli.py", {33, 36, 47})

\* the group callback is over, by returning or by raising
CallbackLeft ==
    \/ pc = "cmd_info"
    \/ RaisedAt("cli.py", {33, 36, 47})

UserMap == IF cfgArg.none THEN EmptyCfg ELSE cfgArg.map

\* the path has one of the extensions .yaml .yml .json .ini
HasConfigExtension(s) == \E ext \in ConfigExts : EndsWith(s, <<".">> \o ext)

(***************************************************************************)
(* C1, as stated: in a CLI run no dataset or plugin is attached before the *)
(* store has been ensured, that is, before the is_bootstrapped test and    *)
(* the UNIHAN bootstrap of the group callback are behind.                  *)
(***************************************************************************)
C1_Original ==
    (entry = "cli" /\ DOMAIN datasets # {}) =>
        (pc \in {"cli_store", "cmd_info"} \/ (pc = "done" /\ ctxObj))

(***************************************************************************)
(* C1, amended: in a CLI run the config is merged and expanded first, then *)
(* the data directory and the Database handle are made, and only then are  *)
(* datasets and plugins attached, all of it inside the construction of the *)
(* application object; the is_bootstrapped test and the UNIHAN bootstrap   *)
(* of the callback come after construction, when every configured dataset  *)
(* and plugin is attached already.                                         *)
(***************************************************************************)
C1_Amended ==
    entry = "cli" =>
        /\ DOMAIN datasets # {} =>
              /\ {"config", "sql"} \subseteq attrsSet
              /\ dataDirExists
              /\ \A p \in DOMAIN config : config[p] = ExpandValue(config[p])
        /\ BootTestReached =>
              /\ DatasetNames(config) \subseteq DOMAIN datasets
              /\ PluginEntries(config) \subseteq PluginsAdded

C1_Witness ==
    /\ entry = "cli"
    /\ pc = "cli_check"
    /\ "unihan" \in DOMAIN datasets
    /\ PluginsAdded # {}

C4_Original ==
    Expanded =>
        /\ \A p \in DOMAIN UserMap :
              p \in DOMAIN config /\ config[p] = UserMap[p]
        /\ \A p \in DOMAIN defaultCfg \ DOMAIN UserMap :
              p \in DOMAIN config /\ config[p] = defaultCfg[p]

(***************************************************************************)
(* C4, amended: the resulting self.config holds, with its path templates   *)
(* expanded, the user's value at every leaf the user set, the default      *)
(* value at every default leaf that no user leaf lies at, above or below,  *)
(* and with unihan the UNIHAN_CONFIG value at every UNIHAN_CONFIG leaf     *)
(* that none of those leaves lies at, above or below; it holds nothing     *)
(* else, and config=None gives what the empty mapping gives.               *)
(***************************************************************************)
C4_Amended ==
    Expanded =>
        LET user  == UserMap
            dflt  == {p \in DOMAIN defaultCfg :
                         \A q \in DOMAIN user : ~Conflicts(p, q)}
            extra == IF unihan
                     THEN {p \in DOMAIN UNIHAN_CONFIG :
                              \A q \in DOMAIN user \cup dflt : ~Conflicts(p, q)}
                     ELSE {}
        IN  /\ DOMAIN config = DOMAIN user \cup dflt \cup extra
            /\ \A p \in DOMAIN user : config[p] = ExpandValue(user[p])
            /\ \A p \in dflt : config[p] = ExpandValue(defaultCfg[p])
            /\ \A p \in extra \ dflt : config[p] = ExpandValue(UNIHAN_CONFIG[p])

C4_Witness ==
    /\ pc = "done"
    /\ unihan
    /\ defaultCfg = PATCHED_CONFIG
    /\ <<"database", "url">> \in DOMAIN UserMap
    /\ UserMap[<<"database", "url">>] = "~/my.db"
    /\ config[<<"datasets", "unihan">>] = "pkg.MixinCls"

(***************************************************************************)
(* C5: once construction is complete every entry of config['datasets'] is  *)
(* an attribute holding an instance of its class; those that are           *)
(* SQLAlchemyMixin instances have the application's Database handle as     *)
(* their sql, the others were not given it.                                *)
(***************************************************************************)
C5_Claim ==
    Constructed =>
        \A ns \in DatasetNames(config) :
            /\ ns \in DOMAIN datasets
            /\ datasets[ns].cls = config[<<"datasets", ns>>]
            /\ datasets[ns].sql =
                  IF IsSQLAlchemyMixin(datasets[ns].cls) THEN "Database" ELSE "unset"

(***************************************************************************)
(* C6, as stated: constructed with unihan=True the object has the dataset  *)
(* of UNIHAN_CONFIG attached whatever the user config; with unihan=False   *)
(* only the datasets of the defaults and of the user config are attached.  *)
(***************************************************************************)
C6_Original ==
    Constructed =>
        IF unihan
        THEN /\ "unihan" \in DOMAIN datasets
             /\ datasets["unihan"].cls = UNIHAN_CONFIG[<<"datasets", "unihan">>]
        ELSE DOMAIN datasets = DatasetNames(UserMap) \cup DatasetNames(defaultCfg)

(***************************************************************************)
(* C6, amended: constructed with unihan=True the object has a dataset      *)
(* attached under UNIHAN_CONFIG's name; it is UNIHAN_CONFIG's class unless *)
(* the user config or the defaults name a class for it, and then it is     *)
(* that class.  With unihan=False only the datasets of the defaults and of *)
(* the user config are attached.                                           *)
(***************************************************************************)
C6_Amended ==
    Constructed =>
        IF unihan
        THEN /\ "unihan" \in DOMAIN datasets
             /\ datasets["unihan"].cls =
                   IF <<"datasets", "unihan">> \in DOMAIN UserMap
                   THEN UserMap[<<"datasets", "unihan">>]
                   ELSE IF <<"datasets", "unihan">> \in DOMAIN defaultCfg
                   THEN defaultCfg[<<"datasets", "unihan">>]
                   ELSE UNIHAN_CONFIG[<<"datasets", "unihan">>]
        ELSE DOMAIN datasets = DatasetNames(UserMap) \cup DatasetNames(defaultCfg)

C6_Witness ==
    /\ pc = "done"
    /\ unihan
    /\ <<"datasets", "unihan">> \in DOMAIN UserMap
    /\ datasets["unihan"].cls = "pkg.MixinCls"

(***************************************************************************)
(* C7: from_file with a non-empty path that does not exist, or that lacks  *)
(* a yaml, yml, json or ini extension, raises CihaiException before the    *)
(* file is read and before anything of a Cihai instance is made; with an   *)
(* empty or None path it builds the Cihai of the empty config.             *)
(***************************************************************************)
C7_Claim ==
    FromFileEntered =>
        IF PathTruthy(pathArg)
        THEN (pathArg.s \notin ExistingFiles \/ ~HasConfigExtension(pathArg.s)) =>
                \/ pc \in {"ff_exists", "ff_ext"}
                \/ /\ pc = "error"
                   /\ err.kind = "CihaiException"
                   /\ ~fileRead
                   /\ attrsSet = {}
                   /\ DOMAIN datasets = {}
        ELSE pc # "ff_exists" => (cfgArg = DictCfg(EmptyCfg) /\ ~fileRead)

(***************************************************************************)
(* C8: a finished `info` for a character that has a row printed one line   *)
(* for each truthy column of the first such row, in column order.          *)
(***************************************************************************)
C8_Claim ==
    (entry = "cli" /\ Constructed /\ Ended /\ HasRow(char)) =>
        (pc = "done" /\ out = InfoLines(FirstRow(char)))

(***************************************************************************)
(* C9: in bootstrap every configured dataset is attached before any plugin *)
(* is added; a plugin is only ever on the dataset it is configured under,  *)
(* as the class configured for it; and construction does not complete      *)
(* with a plugin entry left out: an entry under a name that is not         *)
(* attached ends construction with an error.                               *)
(***************************************************************************)
C9_Theorem ==
    /\ PluginsAdded # {} => DatasetNames(config) \subseteq DOMAIN datasets
    /\ \A d \in DOMAIN datasets : \A n \in DOMAIN datasets[d].plugins :
          /\ <<"plugins", d, n>> \in DOMAIN config
          /\ datasets[d].plugins[n] = config[<<"plugins", d, n>>]
    /\ Constructed =>
          \A q \in PluginEntries(config) : q[2] \in DOMAIN datasets /\ q \in PluginsAdded
    /\ (Ended /\ Expanded /\ \E q \in PluginEntries(config) : q[2] \notin DOMAIN datasets)
          => pc = "error"

C9_Witness ==
    /\ RaisedAt("core.py", {106})
    /\ PluginsAdded # {}
    /\ <<"plugins", "ghost", "p">> \in DOMAIN config
    /\ Cardinality(DOMAIN datasets) >= 2

(***************************************************************************)
(* C10: `info` for a character without a row ends in the error raised by   *)
(* dereferencing the None that first() returned, no column line printed.   *)
(***************************************************************************)
C10_Claim ==
    (entry = "cli" /\ Constructed /\ Ended /\ ~HasRow(char)) =>
        (err = Raised("AttributeError", "cli.py", 49) /\ out = << >>)

====
